---- MODULE Spec2Model ----
(***************************************************************************)
(* Model of ar_slam::FeatureTracker (track_features / reset), of          *)
(* ar_slam::Frame (construction, extract_features) and of                  *)
(* ar_slam::MemoryPool (allocate / deallocate / get_usage).                *)
(*                                                                         *)
(* Positions are integer pairs <<x, y>> counted in 1/SubPixel of a pixel.  *)
(* A tracking quality is the                                               *)
(* exact fraction <<numerator, denominator>> of the float quotient the     *)
(* code computes; with at most 1000 points on either side the float        *)
(* comparison against 0.5f decides exactly as the fraction does.           *)
(* The detector, the optical flow and the outlier filter are external:     *)
(* their outputs are drawn from small families (Images, FlowKinds,         *)
(* MaskKinds) and expanded to full sequences by FlowOf / MaskOf / Detect.  *)
(*                                                                         *)
(* Spec     : one tracker over all images, and the caller of both;         *)
(* SpecTrack: the same, the caller extracting no features itself;          *)
(* SpecLong : one tracker, longer call sequences over the sparser images;  *)
(* SpecPair : two tracker instances called in any interleaving;            *)
(* SpecEdge : one tracker over images with very few and very many          *)
(*            keypoints;                                                   *)
(* SpecMask : one tracker over images reached by a sub-pixel motion;       *)
(* SpecWrap : one tracker whose identity counter is close to INT_MAX;      *)
(* SpecFail : one tracker whose external capabilities can throw;           *)
(* SpecFrame, SpecThreads : Frames constructed by one and several threads; *)
(* in each of the tracker's specifications the caller constructs the       *)
(* Frames (Frame::Frame) and submits Frames it holds (track_features) in   *)
(* separate steps;                                                         *)
(* SpecPool : a MemoryPool.                                                *)
(***************************************************************************)
EXTENDS Integers, Sequences, FiniteSets, TLC

VARIABLES
  prev_frame_,      \* FeatureTracker::prev_frame_ (NoFrame = null pointer,
                    \* else Ptr of the Frame pointed to)
  prev_points_,     \* FeatureTracker::prev_points_
  track_ids_,       \* FeatureTracker::track_ids_
  next_track_id_,   \* FeatureTracker::next_track_id_
  next_id_,         \* Frame::next_id_ (static)
  result,           \* TrackingResult returned by the last track_features
  call,             \* record of the last call: inputs, branch, table before
                    \* (pre), identities issued between the last reset and
                    \* the call (epoch), the call made before it (after),
                    \* the track_features calls made so far (calls)
  issued,           \* identities issued so far
  reused,           \* identities issued more than once so far
  peers,            \* further FeatureTracker instances of the process
  frames,           \* the Frame objects a caller constructed and holds,
                    \* oldest first
  pool,             \* a MemoryPool<T>
  ctor              \* the Frame constructor as each thread executes it

vars == <<prev_frame_, prev_points_, track_ids_, next_track_id_, next_id_,
          result, call, issued, reused, peers, frames, pool, ctor>>

----------------------------------------------------------------------------
(* Bounds of the exploration *)

\* track_features calls made on the tracker, and Frames the caller holds
\* to submit
MaxFrames == 2

\* track_features calls of the runs over the sparser images
LongFrames == 3

\* track_features calls made on the two tracker instances together
PairFrames == 3

\* nesting of track_features inside itself that is followed before the call
\* is given up as not returning
MaxDepth == 3

\* Frame objects a caller constructs, and extract_features calls on them
FrameCap == 2
MaxExtractions == 2

\* Frames held by the caller of, and calls made on, a tracker whose identity
\* counter is about to leave the range of int
WrapFrames == 2

\* Frames held by the caller of, and calls made on, a tracker whose
\* capabilities can fail
FailFrames == 2

\* Frames held by the caller of, and calls made on, a tracker fed with very
\* poor and very rich images
EdgeFrames == 2

\* Frames held by the caller of, and calls made on, the tracker whose
\* exclusion mask is examined
MaskFrames == 2

\* positions are cv::Point2f; their coordinates are counted in 1/SubPixel
\* of a pixel
SubPixel == 2

\* threads that construct Frames, and Frames they construct in all
NumThreads == 2
ThreadFrames == 4

\* addresses operator new can return, and allocate calls on one pool
NumAddrs == 4
MaxAllocs == 4

----------------------------------------------------------------------------
(* Program constants *)

MIN_FEATURES == 100
TARGET_FEATURES == 500
DEFAULT_MAX_FEATURES == 1000
RANSAC_MIN_POINTS == 8
\* the largest value of int, the type of next_track_id_ and of the identities
INT_MAX == 2147483647
\* sizeof(T) of the pooled type, an int and 1024 chars
SIZEOF_T == 1028
ERR_CEILING == 30
MASK_RADIUS == 20

\* MIN_QUALITY = 0.5f as a fraction
MIN_QUALITY == <<1, 2>>

NoFrame == [id |-> -1]

----------------------------------------------------------------------------
(* Small helpers *)

Min(a, b) == IF a < b THEN a ELSE b

Range(s) == {s[i] : i \in DOMAIN s}

Distinct(s) == Cardinality(Range(s)) = Len(s)

\* the sequence F(1), ..., F(n); the concatenation makes TLC build it once
\* instead of re-evaluating F at every later access
MakeSeq(n, F(_)) == [i \in 1..n |-> F(i)] \o << >>

\* the elements of src at the positions idx, in the order of idx
Gather(src, idx) == MakeSeq(Len(idx), LAMBDA k : src[idx[k]])

\* order-preserving selection of the indices 1..n that satisfy Keep
Indices(n, Keep(_)) == SelectSeq(MakeSeq(n, LAMBDA i : i), Keep)

\* the fraction a/b is below the fraction c/d (b, d > 0)
FracLess(q, r) == q[1] * r[2] < r[1] * q[2]
FracEq(q, r) == q[1] * r[2] = r[1] * q[2]

ONE == <<1, 1>>
ZERO == <<0, 1>>

----------------------------------------------------------------------------
(* External capabilities: the images offered to the engine and what the    *)
(* detector, the optical flow and the outlier filter return on them.       *)

\* an image: its size in pixels, the number of keypoints the detector can
\* find in it (ranked), the origin and row step in pixels of the lattice
\* they lie on, and the sub-pixel part of the motion the optical flow finds
\* towards it
Images ==
  { [cols |-> 640, rows |-> 480, n |-> 0,   ox |-> 0, oy |-> 0,   sy |-> 16,
     drift |-> 0],
    [cols |-> 640, rows |-> 480, n |-> 150, ox |-> 1, oy |-> 8,   sy |-> 16,
     drift |-> 0],
    [cols |-> 640, rows |-> 480, n |-> 200, ox |-> 4, oy |-> 6,   sy |-> 16,
     drift |-> 0],
    [cols |-> 640, rows |-> 480, n |-> 520, ox |-> 9, oy |-> 475, sy |-> -16,
     drift |-> 0] }

\* the position of the centre of pixel <<x, y>>
AtPixel(x, y) == << SubPixel * x, SubPixel * y >>

\* cv::Point(pt.x, pt.y): float to int, the fraction is dropped (the
\* coordinates converted are never negative)
PixelOf(pt) == << pt[1] \div SubPixel, pt[2] \div SubPixel >>

\* k-th ranked keypoint of an image
Cand(img, k) ==
  AtPixel(img.ox + 16 * ((k - 1) % 40), img.oy + img.sy * ((k - 1) \div 40))

\* cv::circle(mask, cv::Point(pt.x, pt.y), 20, 0, -1) for every pt of avoid
\* blanks the pixels within the radius of the pixel of one of them.  c is a
\* pixel, ps the set of the pixels of the points of avoid, xs and ys the
\* sets of their coordinates: a pixel that blanks c has its coordinates
\* among those within the radius of c's.
Masked(c, ps, xs, ys) ==
  \E x \in {v \in xs : v - c[1] <= MASK_RADIUS /\ c[1] - v <= MASK_RADIUS} :
    \E y \in {v \in ys : v - c[2] <= MASK_RADIUS /\ c[2] - v <= MASK_RADIUS} :
       /\ (x - c[1]) * (x - c[1]) + (y - c[2]) * (y - c[2])
             <= MASK_RADIUS * MASK_RADIUS
       /\ <<x, y>> \in ps

\* ORB detection: at most maxCount keypoints of the image, in rank order,
\* none on a pixel blanked by the circles around avoid
Detect(img, maxCount, avoid) ==
  LET all  == MakeSeq(img.n, LAMBDA k : Cand(img, k))
      ps   == {PixelOf(pt) : pt \in Range(avoid)}
      xs   == {pt[1] : pt \in ps}
      ys   == {pt[2] : pt \in ps}
      free == IF avoid = << >> THEN all
              ELSE SelectSeq(all, LAMBDA c : ~Masked(PixelOf(c), ps, xs, ys))
  IN  SubSeq(free, 1, Min(maxCount, Len(free)))

\* "-" stands for a capability the call does not reach
FlowKinds == {"all", "most", "half", "few"}

\* calcOpticalFlowPyrLK outputs for the i-th previous point, at p
FlowOk(fk, i) ==
  CASE fk = "all"   -> TRUE
    [] fk = "most"  -> i % 50 # 0
    [] fk = "half"  -> i % 2 = 1
    [] fk = "few"   -> i <= 7
    [] OTHER        -> FALSE

FlowStatus(fk, i) ==
  IF FlowOk(fk, i) THEN 1
  ELSE IF fk = "half" /\ i % 6 # 0 THEN 1 ELSE 0

FlowErr(fk, i) ==
  IF FlowOk(fk, i) THEN ERR_CEILING - 1
  ELSE IF fk = "half" /\ i % 6 = 2 THEN ERR_CEILING ELSE 5

FlowPt(fk, i, p, img) ==
  IF FlowOk(fk, i)
  THEN << p[1] + 3 * SubPixel + img.drift, p[2] + 2 * SubPixel + img.drift >>
  ELSE IF fk = "half" /\ i % 12 = 4 THEN << SubPixel * img.cols, p[2] >>
  ELSE IF fk = "half" /\ i % 12 = 10 THEN << p[1], -1 >>
  ELSE p

FlowOf(fk, pts, img) ==
  [ status      |-> MakeSeq(Len(pts), LAMBDA i : FlowStatus(fk, i)),
    err         |-> MakeSeq(Len(pts), LAMBDA i : FlowErr(fk, i)),
    curr_points |-> MakeSeq(Len(pts), LAMBDA i : FlowPt(fk, i, pts[i], img)) ]

MaskKinds == {"all", "most", "empty", "half", "halfplus"}

\* inlier mask of cv::findFundamentalMat over s point pairs
MaskOf(mk, s) ==
  CASE mk = "all"      -> [i \in 1..s |-> 1]
    [] mk = "most"     -> MakeSeq(s, LAMBDA i : IF i % 10 # 0 THEN 1 ELSE 0)
    [] mk = "empty"    -> << >>
    [] mk = "half"     -> MakeSeq(s, LAMBDA i : IF i % 2 = 0 THEN 1 ELSE 0)
    [] mk = "halfplus" -> MakeSeq(s, LAMBDA i : IF i % 2 = 0 \/ i = 1 THEN 1 ELSE 0)
    [] OTHER           -> << >>

----------------------------------------------------------------------------
(* Frame *)

\* Frame::Frame; a Feature is modelled by its pixel
NewFrame(img, id) ==
  [id |-> id, image |-> img, keypoints_ |-> << >>, features |-> << >>]

\* a Frame::Ptr that is not null, told by the id_ and the image of the Frame
\* it points to, which no call changes.  What extract_features changes in
\* the Frame is held once, in frames
Ptr(frame) == [id |-> frame.id, image |-> frame.image]

\* variant: the id counter is read but not advanced
NextFrameIdReused(n) == n

\* next_id_++ in the constructor's initialiser list
NextFrameId(n) == n + 1

\* variant: the Feature vector is not emptied before it is refilled
FeaturesKept(features) == features

\* features_.clear()
FeaturesCleared(features) == << >>

\* the Feature objects made of the keypoints kps, appended to features
WithFeatures(frame, kps, features) ==
  [frame EXCEPT !.keypoints_ = kps, !.features = features \o kps]

\* variant: the detector keeps every keypoint it finds
ExtractFeaturesUncapped(frame, max_features) ==
  WithFeatures(frame, Detect(frame.image, frame.image.n, << >>),
               FeaturesCleared(frame.features))

\* variant: the requested count is not handed to the detector, which then
\* applies its own default of 500
ExtractFeaturesDetectorDefault(frame, max_features) ==
  WithFeatures(frame, Detect(frame.image, 500, << >>),
               FeaturesCleared(frame.features))

\* Frame::extract_features(max_features): keypoints recomputed and replaced
ExtractFeatures(frame, max_features) ==
  WithFeatures(frame, Detect(frame.image, max_features, << >>),
               FeaturesCleared(frame.features))

----------------------------------------------------------------------------
(* FeatureTracker *)

\* TrackingResult as default-constructed, tracking_quality = 0.0f
EmptyResult ==
  [ prev_points |-> << >>, curr_points |-> << >>, track_ids |-> << >>,
    inliers |-> << >>, num_tracked |-> 0, num_inliers |-> 0,
    tracking_quality |-> ZERO ]

\* an int after k times ++ from v.  The increment of INT_MAX is a signed
\* overflow; where the build does not trap on it (see TrapOn) the value
\* continues from the smallest int, computed here without leaving the range
Incremented(v, k) ==
  IF v <= INT_MAX - k THEN v + k
  ELSE ((v - INT_MAX) + (k - 1)) - INT_MAX - 1

\* variant: every allocation counts from zero again
FreshIdsFromZero(next, n) == MakeSeq(n, LAMBDA k : k - 1)

\* identities pushed by a loop of n track_ids_.push_back(next_track_id_++)
FreshIds(next, n) == MakeSeq(n, LAMBDA k : Incremented(next, k - 1))

\* the point lies inside the image
InBounds(pt, img) ==
  /\ pt[1] >= 0 /\ pt[1] < SubPixel * img.cols
  /\ pt[2] >= 0 /\ pt[2] < SubPixel * img.rows

\* variant: a residual error equal to the ceiling still passes
GoodIndicesErrInclusive(flow, img) ==
  Indices(Len(flow.status),
          LAMBDA i : /\ flow.status[i] # 0
                     /\ flow.err[i] <= ERR_CEILING
                     /\ InBounds(flow.curr_points[i], img))

\* indices collected by the valid-track loop
GoodIndices(flow, img) ==
  Indices(Len(flow.status),
          LAMBDA i : /\ flow.status[i] # 0
                     /\ flow.err[i] < ERR_CEILING
                     /\ InBounds(flow.curr_points[i], img))

\* variant: the outlier filter is applied from seven point pairs on
RansacAppliesAtSeven(s) == s >= RANSAC_MIN_POINTS - 1

\* the outlier filter is applied
RansacApplies(s) == s >= RANSAC_MIN_POINTS

\* positions (into the survivor set) the mask keeps
MaskIndices(mask) == Indices(Len(mask), LAMBDA i : mask[i] # 0)

\* variant: a filtered set of exactly half the survivors is accepted too
SanityAcceptInclusive(r, s) == 2 * r >= s

\* sanity check: r filtered points out of s survivors are accepted
SanityAccept(r, s) == 2 * r > s

\* variant: the operands of the quotient are swapped
QualitySwapped(after, before) == IF after = 0 THEN ZERO ELSE <<before, after>>

\* tracking quality of a steady step
Quality(after, before) == IF before = 0 THEN ZERO ELSE <<after, before>>

\* variant: the number of tracks left is not consulted
NeedRedetectQualityOnly(q, n) == FracLess(q, MIN_QUALITY)

\* variant: the quality is not consulted
NeedRedetectCountOnly(q, n) == n < MIN_FEATURES

\* variant: the thresholds themselves count as lost
NeedRedetectInclusive(q, n) == ~FracLess(MIN_QUALITY, q) \/ n <= MIN_FEATURES

\* policy: re-detect
NeedRedetect(q, n) == FracLess(q, MIN_QUALITY) \/ n < MIN_FEATURES

\* policy: add features
NeedAugment(n) == n < TARGET_FEATURES

\* number of detections the augmentation asks for
AugmentBudget(n) == TARGET_FEATURES - n

\* keypoints appended by the augmentation loop (it breaks at the target)
AugmentTake(n, found) == Min(found, TARGET_FEATURES - n)

\* the tracker's fields as one record
Tracker(pf, pp, ids, next) ==
  [prev_frame_ |-> pf, prev_points_ |-> pp, track_ids_ |-> ids,
   next_track_id_ |-> next]

\* variant: the first-frame branch numbers its identities from zero
InitTableFromZero(t, cf) ==
  Tracker(Ptr(cf), cf.features,
          MakeSeq(Len(cf.features), LAMBDA k : k - 1), Len(cf.features))

\* first frame: prev_frame_ set, table cleared and refilled from the
\* features of the frame cf
InitTable(t, cf) ==
  Tracker(Ptr(cf), cf.features,
          FreshIds(t.next_track_id_, Len(cf.features)),
          Incremented(t.next_track_id_, Len(cf.features)))

\* variant: the first-frame result carries the count and the quality only
BootstrapResultCountsOnly(res, t) ==
  [res EXCEPT !.num_tracked = Len(t.prev_points_),
              !.tracking_quality = ONE]

\* result of the first-frame branch
BootstrapResult(res, t) ==
  [res EXCEPT !.num_tracked = Len(t.prev_points_),
              !.tracking_quality = ONE,
              !.curr_points = t.prev_points_,
              !.track_ids = t.track_ids_]

\* variant: the table is not cleared before the new features are pushed
RedetectWithoutClear(t, cf) ==
  Tracker(Ptr(cf), t.prev_points_ \o cf.features,
          t.track_ids_ \o FreshIds(t.next_track_id_, Len(cf.features)),
          Incremented(t.next_track_id_, Len(cf.features)))

\* variant: the re-detection leaves the previous frame in its slot
RedetectKeepsFrame(t, cf) ==
  Tracker(t.prev_frame_, cf.features,
          FreshIds(t.next_track_id_, Len(cf.features)),
          Incremented(t.next_track_id_, Len(cf.features)))

\* re-detection: table cleared and refilled from the features of cf
Redetect(t, cf) ==
  Tracker(Ptr(cf), cf.features,
          FreshIds(t.next_track_id_, Len(cf.features)),
          Incremented(t.next_track_id_, Len(cf.features)))

\* variant: the quality computed before the re-detection is left in place
ReinitResultKeepsRatio(res, t) ==
  [res EXCEPT !.prev_points = << >>,
              !.curr_points = t.prev_points_,
              !.track_ids = t.track_ids_,
              !.num_tracked = Len(t.prev_points_),
              !.num_inliers = Len(t.prev_points_),
              !.inliers = MakeSeq(Len(t.prev_points_), LAMBDA k : TRUE)]

\* result of the re-detection branch
ReinitResult(res, t) ==
  [res EXCEPT !.prev_points = << >>,
              !.curr_points = t.prev_points_,
              !.track_ids = t.track_ids_,
              !.num_tracked = Len(t.prev_points_),
              !.num_inliers = Len(t.prev_points_),
              !.tracking_quality = ONE,
              !.inliers = MakeSeq(Len(t.prev_points_), LAMBDA k : TRUE)]

\* variant: the previous and the current positions change places
NormalResultSwapped(res, good_prev, good_curr, good_ids) ==
  [res EXCEPT !.prev_points = good_curr,
              !.curr_points = good_prev,
              !.track_ids = good_ids,
              !.num_tracked = Len(good_curr),
              !.num_inliers = Len(good_curr),
              !.inliers = MakeSeq(Len(good_curr), LAMBDA k : TRUE)]

\* normal tracking result, before any augmentation
NormalResult(res, good_prev, good_curr, good_ids) ==
  [res EXCEPT !.prev_points = good_prev,
              !.curr_points = good_curr,
              !.track_ids = good_ids,
              !.num_tracked = Len(good_curr),
              !.num_inliers = Len(good_curr),
              !.inliers = MakeSeq(Len(good_curr), LAMBDA k : TRUE)]

\* variant: the count is not updated after the augmentation
AugmentedResultStaleCount(res, curr, tids) ==
  [res EXCEPT !.curr_points = curr, !.track_ids = tids]

\* variant: the quality is recomputed from the augmented count
AugmentedResultRescored(res, curr, tids) ==
  [res EXCEPT !.curr_points = curr, !.track_ids = tids,
              !.num_tracked = Len(curr),
              !.tracking_quality = <<Len(curr), Len(res.prev_points)>>]

\* result updated with the features the augmentation added
AugmentedResult(res, curr, tids) ==
  [res EXCEPT !.curr_points = curr, !.track_ids = tids,
              !.num_tracked = Len(curr)]

\* the identities of the table t2 that the call starting from t issued
IssuedSince(t, t2) ==
  SelectSeq(t2.track_ids_,
            LAMBDA id : \/ id >= t.next_track_id_
                        \/ /\ t2.next_track_id_ < t.next_track_id_
                           /\ id < t2.next_track_id_)

\* first-frame branch of track_features; depth counts the re-entries
Bootstrap(t, frame, depth) ==
  LET cf == ExtractFeatures(frame, DEFAULT_MAX_FEATURES)
      t2 == InitTable(t, cf)
  IN  [ t      |-> t2,
        frame  |-> cf,
        result |-> BootstrapResult(EmptyResult, t2),
        branch |-> IF depth = 0 THEN "bootstrap" ELSE "rebootstrap",
        depth  |-> depth,
        fresh  |-> t2.track_ids_,
        asked  |-> DEFAULT_MAX_FEATURES,
        ransac |-> FALSE, surv_ids |-> << >>, nmask |-> 0, nfinal |-> 0,
        idx    |-> << >> ]

\* valid tracks: good_prev_points, good_curr_points, good_track_ids
Survivors(t, flow, img) ==
  LET gidx == GoodIndices(flow, img)
  IN  [ idx  |-> gidx,
        prev |-> Gather(t.prev_points_, gidx),
        curr |-> Gather(flow.curr_points, gidx),
        ids  |-> Gather(t.track_ids_,
                        SelectSeq(gidx, LAMBDA i : i <= Len(t.track_ids_))) ]

\* variant: the filtered identities are taken from the head of the
\* survivors' identities instead of the positions the mask keeps
FilteredIdsMisaligned(good, mask) ==
  LET midx == MaskIndices(mask)
  IN  IF /\ RansacApplies(Len(good.curr))
         /\ SanityAccept(Len(midx), Len(good.curr))
      THEN [ idx  |-> Gather(good.idx, midx),
             prev |-> Gather(good.prev, midx),
             curr |-> Gather(good.curr, midx),
             ids  |-> SubSeq(good.ids, 1, Len(midx)) ]
      ELSE good

\* the valid tracks after the outlier filter and its sanity check
Filtered(good, mask) ==
  LET midx == MaskIndices(mask)
  IN  IF /\ RansacApplies(Len(good.curr))
         /\ SanityAccept(Len(midx), Len(good.curr))
      THEN [ idx  |-> Gather(good.idx, midx),
             prev |-> Gather(good.prev, midx),
             curr |-> Gather(good.curr, midx),
             ids  |-> Gather(good.ids, midx) ]
      ELSE good

\* re-detection branch
ReinitBranch(t, frame, res, seen) ==
  LET cf == ExtractFeatures(frame, DEFAULT_MAX_FEATURES)
      t2 == Redetect(t, cf)
  IN  [ t |-> t2, frame |-> cf,
        result |-> ReinitResult(res, t2), branch |-> "reinit",
        fresh |-> IssuedSince(t, t2), asked |-> DEFAULT_MAX_FEATURES ] @@ seen

\* variant: the keypoints found are put in front of the survivors
AugmentBranchPrepends(t, frame, res, found, seen) ==
  LET take == AugmentTake(Len(res.curr_points), Len(found))
      ids  == FreshIds(t.next_track_id_, take)
  IN  [ t |-> Tracker(Ptr(frame), SubSeq(found, 1, take) \o res.curr_points,
                      ids \o res.track_ids, Incremented(t.next_track_id_, take)),
        frame |-> frame,
        result |-> AugmentedResult(res,
                                   SubSeq(found, 1, take) \o res.curr_points,
                                   ids \o res.track_ids),
        branch |-> "augment", fresh |-> ids ] @@ seen

\* augmentation: the keypoints found are appended with new identities
AugmentBranch(t, frame, res, found, seen) ==
  LET take == AugmentTake(Len(res.curr_points), Len(found))
      ids  == FreshIds(t.next_track_id_, take)
  IN  [ t |-> Tracker(Ptr(frame), res.curr_points \o SubSeq(found, 1, take),
                      res.track_ids \o ids, Incremented(t.next_track_id_, take)),
        frame |-> frame,
        result |-> AugmentedResult(res,
                                   res.curr_points \o SubSeq(found, 1, take),
                                   res.track_ids \o ids),
        branch |-> "augment", fresh |-> ids ] @@ seen

\* normal tracking branch; res is the normal result
KeepBranch(t, frame, res, seen) ==
  IF NeedAugment(Len(res.curr_points))
  THEN [ asked |-> AugmentBudget(Len(res.curr_points)) ]
         @@ AugmentBranch(t, frame, res,
                          Detect(frame.image,
                                 AugmentBudget(Len(res.curr_points)),
                                 res.curr_points),
                          seen)
  ELSE [ t |-> Tracker(Ptr(frame), res.curr_points, res.track_ids,
                       t.next_track_id_),
         frame |-> frame,
         result |-> res, branch |-> "continue", fresh |-> << >>,
         asked |-> 0 ] @@ seen

\* quality and policy decision over the final set
Policy(t, frame, final, seen) ==
  LET res == [EmptyResult EXCEPT
                !.tracking_quality = Quality(Len(final.curr),
                                             Len(t.prev_points_))]
  IN  IF NeedRedetect(res.tracking_quality, Len(final.curr))
      THEN ReinitBranch(t, frame, res, seen)
      ELSE KeepBranch(t, frame,
                      NormalResult(res, final.prev, final.curr, final.ids),
                      seen)

\* what the step saw: survivors, mask size, final size, and the positions
\* the final set had in the table before the step
Seen(good, mask, final, depth) ==
  [ depth |-> depth, ransac |-> RansacApplies(Len(good.curr)),
    idx |-> final.idx,
    surv_ids |-> good.ids,
    nmask |-> IF RansacApplies(Len(good.curr)) THEN Len(MaskIndices(mask))
              ELSE 0,
    nfinal |-> Len(final.curr) ]

\* optical-flow branch of track_features, given the valid tracks
SteadyFrom(t, frame, good, mask, depth) ==
  LET final == Filtered(good, mask)
  IN  Policy(t, frame, final, Seen(good, mask, final, depth))

\* optical-flow branch of track_features, previous points not empty
Steady(t, frame, flow, mask, depth) ==
  SteadyFrom(t, frame, Survivors(t, flow, frame.image), mask, depth)

\* a call that is still re-entering itself at nesting depth: it does not
\* return
Diverged(t, frame, depth) ==
  [ t |-> t, frame |-> frame, result |-> EmptyResult, branch |-> "diverged", depth |-> depth,
    fresh |-> << >>, asked |-> 0, ransac |-> FALSE, surv_ids |-> << >>,
    nmask |-> 0, nfinal |-> 0, idx |-> << >> ]

\* variant: the previous frame is not released before the re-entry
ClearFrameForgotten(t) == t

\* prev_frame_.reset() ahead of the re-entry
ClearFrame(t) == [t EXCEPT !.prev_frame_ = NoFrame]

\* variant: with an empty table the call returns the default result,
\* nothing to track, and leaves the tracker as it is
TrackFeaturesFromGivesUp(t, frame, flow, mask, depth) ==
  IF t.prev_frame_ = NoFrame
  THEN Bootstrap(t, frame, depth)
  ELSE IF t.prev_points_ = << >>
  THEN [Diverged(t, frame, depth) EXCEPT !.branch = "nothing"]
  ELSE Steady(t, frame, flow, mask, depth)

\* track_features entered at nesting depth (0 = the caller's call)
RECURSIVE TrackFeaturesFrom(_, _, _, _, _)
TrackFeaturesFrom(t, frame, flow, mask, depth) ==
  IF depth > MaxDepth
  THEN Diverged(t, frame, depth)
  ELSE IF t.prev_frame_ = NoFrame
  THEN Bootstrap(t, frame, depth)
  ELSE IF t.prev_points_ = << >>
  THEN \* prev_frame_.reset(); return track_features(current_frame);
       TrackFeaturesFrom(ClearFrame(t), frame, flow, mask, depth + 1)
  ELSE Steady(t, frame, flow, mask, depth)

\* FeatureTracker::track_features(current_frame); flow and mask are what
\* the optical flow and the outlier filter return when the call reaches them
TrackFeaturesOp(t, frame, flow, mask) ==
  TrackFeaturesFrom(t, frame, flow, mask, 0)

\* variant: the identity counter survives the reset
ResetOpKeepsCounter(t) == Tracker(NoFrame, << >>, << >>, t.next_track_id_)

\* variant: the previous frame survives the reset
ResetOpKeepsFrame(t) == Tracker(t.prev_frame_, << >>, << >>, 0)

\* FeatureTracker::reset
ResetOp(t) == Tracker(NoFrame, << >>, << >>, 0)

\* FeatureTracker() = default, with the default member initialisers
Constructed == Tracker(NoFrame, << >>, << >>, 0)

----------------------------------------------------------------------------
(* State machine *)

NoCall ==
  [ op |-> "none", branch |-> "none", depth |-> 0, ransac |-> FALSE,
    surv_ids |-> << >>, nmask |-> 0, nfinal |-> 0, frame |-> NoFrame,
    fk |-> "-", mk |-> "-", fresh |-> << >>, idx |-> << >>, asked |-> 0,
    epoch |-> {}, after |-> "none", calls |-> 0,
    pre |-> Tracker(NoFrame, << >>, << >>, 0) ]

\* an instance besides the one held in the variables: its fields, the
\* result of its last track_features, the number of frames it was given
NewEngine == [t |-> Constructed, result |-> EmptyResult, frames |-> 0]

\* other: a second instance, called on its own;
\* alone: the first instance as it runs in a process without the second;
\* fresh: an instance constructed when the first one was last reset and
\*        given the same frames since; resets, since: whether the first
\*        instance was reset, and its track_features calls since then;
\* apart: the caller's Frames as they are in the process of alone, where
\*        only the first instance is called on them
NoPeers ==
  [ other |-> NewEngine, alone |-> NewEngine, fresh |-> NewEngine,
    resets |-> FALSE, since |-> 0, apart |-> << >> ]

\* no thread is inside the Frame constructor.  pc: "idle" or "loaded" (the
\* thread has read next_id_ and not yet written it back); reg: the value it
\* read; made: the Frames it has constructed
NoCtor == [th \in 1..NumThreads |-> [pc |-> "idle", reg |-> 0, made |-> 0]]

\* MemoryPool::MemoryPool(max_bytes).  freed: what the last call passed to
\* ::operator delete; outstanding: the pointers allocate returned that the
\* pool has not freed since; ever: all pointers allocate returned;
\* last, arg, kind, before: the last call ("destroy": the destructor, after
\* which the pool is gone), its argument, whether the pool owned it, and
\* the list before the call
NewPool(max_bytes) ==
  [ max_size_ |-> max_bytes, allocated_items_ |-> << >>, freed |-> {},
    outstanding |-> {}, ever |-> {}, last |-> "none", arg |-> 0,
    kind |-> "none", before |-> << >> ]

Init ==
  /\ prev_frame_ = NoFrame
  /\ prev_points_ = << >>
  /\ track_ids_ = << >>
  /\ next_track_id_ = 0
  /\ next_id_ = 0
  /\ result = EmptyResult
  /\ call = NoCall
  /\ issued = {}
  /\ reused = {}
  /\ peers = NoPeers
  /\ frames = << >>
  /\ pool = NewPool(0)
  /\ ctor = NoCtor

\* the fields of the first instance, as one record
OwnTracker == Tracker(prev_frame_, prev_points_, track_ids_, next_track_id_)

\* no tracker call is made
TrackerIdle ==
  UNCHANGED <<prev_frame_, prev_points_, track_ids_, next_track_id_,
              result, call, issued, reused, peers>>

\* a Frame the caller holds: the object, the max_features of the last
\* extract_features call on it (0: none), the number of these calls, and
\* the length of its Feature vector before the last of them
Held(frame) == [frame |-> frame, asked |-> 0, times |-> 0, before |-> 0]

\* the held Frame h once an extract_features(max_features) call has left
\* the object as cf
Extracted(h, cf, max_features) ==
  [ frame |-> cf, asked |-> max_features, times |-> h.times + 1,
    before |-> Len(h.frame.features) ]

\* the branches of track_features that call extract_features on the frame
\* submitted
Extracting == {"bootstrap", "rebootstrap", "reinit"}

\* the held Frame h after a track_features call on it with the outcome out
HeldAfter(h, out) ==
  IF out.branch \in Extracting THEN Extracted(h, out.frame, out.asked) ELSE h

\* the place among the held Frames fs of the one a pointer points to
IndexOf(fs, ptr) == CHOOSE i \in 1..Len(fs) : fs[i].frame.id = ptr.id

\* the Frame a pointer points to, among those the caller holds
Pointee(ptr) == frames[IndexOf(frames, ptr)].frame

\* the extract_features calls made on the frames fs
RECURSIVE Extractions(_)
Extractions(fs) ==
  IF fs = << >> THEN 0 ELSE Head(fs).times + Extractions(Tail(fs))

\* the max_features arguments of the caller's extract_features calls
FeatureCounts == {100, 500, DEFAULT_MAX_FEATURES}

\* the max_features a caller asks for on a Frame it submits to a tracker
CallerCounts == {100}

\* Frame::Frame(image) over one of the images imgs, as long as the caller
\* holds fewer than cap Frames
ConstructOn(imgs, cap) ==
  /\ Len(frames) < cap
  /\ \E img \in imgs :
       frames' = Append(frames, Held(NewFrame(img, next_id_)))
  /\ next_id_' = NextFrameId(next_id_)
  /\ UNCHANGED <<pool, ctor>>
  /\ TrackerIdle

\* frame->extract_features(max_features) with one of the values counts,
\* called by the holder of the frame
ExtractOn(counts) ==
  /\ Extractions(frames) < MaxExtractions
  /\ \E i \in 1..Len(frames) :
       /\ \E max_features \in counts :
            frames' = [frames EXCEPT ![i] =
                         Extracted(@, ExtractFeatures(@.frame, max_features),
                                   max_features)]
  /\ UNCHANGED <<next_id_, pool, ctor>>
  /\ TrackerIdle

\* the optical flow is reached when there are previous points
FlowChoices(t) == IF t.prev_points_ = << >> THEN {"-"} ELSE FlowKinds

\* the outlier filter is reached when enough flow results survive
MaskChoices(s) == IF RansacApplies(s) THEN MaskKinds ELSE {"-"}

\* the outcome out of a call on the i-th Frame held becomes the state
Commit(out, t, i, fk, mk) ==
  /\ prev_frame_' = out.t.prev_frame_
  /\ prev_points_' = out.t.prev_points_
  /\ track_ids_' = out.t.track_ids_
  /\ next_track_id_' = out.t.next_track_id_
  /\ frames' = [frames EXCEPT ![i] = HeldAfter(@, out)]
  /\ result' = out.result
  /\ call' = [ op |-> "track", branch |-> out.branch, depth |-> out.depth,
               ransac |-> out.ransac, surv_ids |-> out.surv_ids,
               nmask |-> out.nmask, nfinal |-> out.nfinal,
               frame |-> Ptr(frames[i].frame), fk |-> fk, mk |-> mk,
               fresh |-> out.fresh, idx |-> out.idx, asked |-> out.asked,
               epoch |-> call.epoch \cup Range(call.fresh),
               after |-> call.op, calls |-> call.calls + 1, pre |-> t ]
  /\ issued' = issued \cup Range(out.fresh)
  /\ reused' = reused \cup (Range(out.fresh) \cap issued)

\* the call on the i-th Frame held, once the optical flow has returned (if
\* it was reached)
TrackWithFlow(t, i, fk, flow, s) ==
  \E mk \in MaskChoices(s) :
     Commit(TrackFeaturesOp(t, frames[i].frame, flow, MaskOf(mk, s)),
            t, i, fk, mk)

\* the caller submits one of the Frames it holds, as long as fewer than cap
\* calls were made
TrackOn(cap) ==
  /\ call.calls < cap
  /\ \E i \in 1..Len(frames) :
       \E fk \in FlowChoices(OwnTracker) :
          TrackWithFlow(OwnTracker, i, fk,
                        FlowOf(fk, prev_points_, frames[i].frame.image),
                        Len(GoodIndices(
                              FlowOf(fk, prev_points_, frames[i].frame.image),
                              frames[i].frame.image)))

\* a caller resets the tracker
ResetCall ==
  /\ LET t  == OwnTracker
         t2 == ResetOp(t)
     IN  /\ prev_frame_' = t2.prev_frame_
         /\ prev_points_' = t2.prev_points_
         /\ track_ids_' = t2.track_ids_
         /\ next_track_id_' = t2.next_track_id_
         /\ call' = [NoCall EXCEPT !.op = "reset", !.pre = t,
                                   !.after = call.op, !.calls = call.calls]
  /\ UNCHANGED <<next_id_, result, issued, reused>>

\* the caller constructs a Frame
Construct == ConstructOn(Images, MaxFrames)

\* the caller extracts the features of a Frame it holds
Extract == ExtractOn(CallerCounts)

TrackFeatures == TrackOn(MaxFrames) /\ UNCHANGED <<next_id_, peers, pool, ctor>>

Reset == ResetCall /\ UNCHANGED <<peers, frames, pool, ctor>>

Next == Construct \/ Extract \/ TrackFeatures \/ Reset

Spec == Init /\ [][Next]_vars

----------------------------------------------------------------------------
(* One tracker and a caller that leaves the feature extraction to it *)

NextTrack == Construct \/ TrackFeatures \/ Reset

SpecTrack == Init /\ [][NextTrack]_vars

----------------------------------------------------------------------------
(* Longer runs of one tracker over the sparser images *)

SparseImages == {img \in Images : img.n <= 200}

ConstructSparse == ConstructOn(SparseImages, MaxFrames)

TrackSparse ==
  TrackOn(LongFrames) /\ UNCHANGED <<next_id_, peers, pool, ctor>>

NextLong == ConstructSparse \/ TrackSparse \/ Reset

SpecLong == Init /\ [][NextLong]_vars

----------------------------------------------------------------------------
(* Two tracker instances in one process.  The instance held in the         *)
(* variables is called by TrackOwn and ResetOwn, the instance peers.other  *)
(* by TrackPeer and ResetPeer; both are given Frames of the one caller.    *)

\* the images the two instances are given
PairImages == {img \in Images : img.n = 200}

\* the data members of FeatureTracker that its member functions write
Members == {"prev_frame_", "prev_points_", "track_ids_", "next_track_id_"}

\* the two FeatureTracker objects of the process
Instances == {"own", "other"}

\* variant: next_track_id_ is a static member, one counter for all instances
StaticMembersCounter == {"next_track_id_"}

\* the data members declared static: none
StaticMembers == {}

\* where the member m of the object this is stored: inside the object, or
\* once for the class when the member is static
Cell(this, m) ==
  IF m \in StaticMembers THEN <<"FeatureTracker", m>> ELSE <<this, m>>

\* the memory that holds the members of the two objects, the first reading
\* its members as a and the second as b
Memory(a, b) ==
  [ c \in {Cell(this, m) : this \in Instances, m \in Members} |->
      IF c[1] = "other" THEN b[c[2]] ELSE a[c[2]] ]

\* the members the object this reads in the memory mem
View(mem, this) ==
  Tracker(mem[Cell(this, "prev_frame_")], mem[Cell(this, "prev_points_")],
          mem[Cell(this, "track_ids_")], mem[Cell(this, "next_track_id_")])

\* the memory mem once a member function called on the object this has left
\* the members it writes as t
Written(mem, this, t) ==
  [ c \in DOMAIN mem |->
      IF c \in {Cell(this, m) : m \in Members} THEN t[c[2]] ELSE mem[c] ]

\* the members the object this reads after a member function called on the
\* object that has left the members of that one as t
ViewAfter(this, that, t) ==
  View(Written(Memory(OwnTracker, peers.other.t), that, t), this)

\* the instance e after a track_features call with the outcome out
EngineAfter(out, e) ==
  [t |-> out.t, result |-> out.result, frames |-> e.frames + 1]

\* the outcome of track_features on the instance e, once the optical flow
\* has returned
EngineWithFlow(e, frame, mk, flow) ==
  TrackFeaturesOp(e.t, frame, flow,
                  MaskOf(mk, Len(GoodIndices(flow, frame.image))))

\* the outcome of track_features on the instance e
EngineOutcome(e, frame, fk, mk) ==
  EngineWithFlow(e, frame, mk, FlowOf(fk, e.t.prev_points_, frame.image))

\* track_features on the instance e
EngineTrack(e, frame, fk, mk) ==
  EngineAfter(EngineOutcome(e, frame, fk, mk), e)

\* reset on the instance e
EngineReset(e) == [e EXCEPT !.t = ResetOp(e.t)]

\* the caller constructs a Frame, here and in the process without the
\* second instance
ConstructPair ==
  /\ Len(frames) < MaxFrames
  /\ \E img \in PairImages :
       /\ frames' = Append(frames, Held(NewFrame(img, next_id_)))
       /\ peers' = [peers EXCEPT
                      !.apart = Append(@, Held(NewFrame(img, next_id_)))]
  /\ next_id_' = NextFrameId(next_id_)
  /\ UNCHANGED <<prev_frame_, prev_points_, track_ids_, next_track_id_,
                 result, call, issued, reused, pool, ctor>>

\* the instances the first one is compared with after its call on the i-th
\* Frame held: alone makes the call on that Frame as it is in its own
\* process, out being its outcome, fresh on the Frame as it is here; the
\* second instance reads its members in the memory the call has written
OwnTracked(out, i) ==
  peers' = [peers EXCEPT
     !.alone = EngineAfter(out, @),
     !.apart[i] = HeldAfter(@, out),
     !.fresh = EngineTrack(@, frames[i].frame, call'.fk, call'.mk),
     !.since = @ + 1,
     !.other.t = ViewAfter("other", "own",
                           Tracker(prev_frame_', prev_points_', track_ids_',
                                   next_track_id_'))]

\* track_features on the first instance, as long as fewer than PairFrames
\* calls were made on the two; the instances it is compared with are given
\* the same answers of the capabilities
TrackOwn ==
  /\ call.calls + peers.other.frames < PairFrames
  /\ TrackOn(PairFrames)
  /\ OwnTracked(EngineOutcome(peers.alone,
                              peers.apart[IndexOf(frames, call'.frame)].frame,
                              call'.fk, call'.mk),
                IndexOf(frames, call'.frame))
  /\ UNCHANGED <<next_id_, pool, ctor>>

\* reset on the first instance; a new instance is constructed beside it
ResetOwn ==
  /\ ResetCall
  /\ peers' = [peers EXCEPT
        !.alone = EngineReset(@), !.fresh = NewEngine,
        !.resets = TRUE, !.since = 0,
        !.other.t = ViewAfter("other", "own", ResetOp(OwnTracker))]
  /\ UNCHANGED <<frames, pool, ctor>>

\* a call on the second instance has left the members it writes, and what
\* it returned, as e2: both instances read their members in the memory the
\* call has written
PeerCommit(e2) ==
  /\ prev_frame_' = ViewAfter("own", "other", e2.t).prev_frame_
  /\ prev_points_' = ViewAfter("own", "other", e2.t).prev_points_
  /\ track_ids_' = ViewAfter("own", "other", e2.t).track_ids_
  /\ next_track_id_' = ViewAfter("own", "other", e2.t).next_track_id_
  /\ peers' = [peers EXCEPT
                 !.other = [e2 EXCEPT !.t = ViewAfter("other", "other", e2.t)]]
  /\ UNCHANGED <<next_id_, result, call, issued, reused, pool, ctor>>

\* the outcome out of a track_features call of the second instance on the
\* i-th Frame held
PeerTracked(out, i) ==
  /\ PeerCommit(EngineAfter(out, peers.other))
  /\ frames' = [frames EXCEPT ![i] = HeldAfter(@, out)]

\* track_features on the second instance
TrackPeer ==
  /\ call.calls + peers.other.frames < PairFrames
  /\ \E i \in 1..Len(frames) :
       \E fk \in FlowChoices(peers.other.t) :
          \E mk \in MaskChoices(Len(GoodIndices(
                       FlowOf(fk, peers.other.t.prev_points_,
                              frames[i].frame.image),
                       frames[i].frame.image))) :
             PeerTracked(EngineOutcome(peers.other, frames[i].frame, fk, mk),
                         i)

\* reset on the second instance
ResetPeer ==
  /\ PeerCommit(EngineReset(peers.other))
  /\ UNCHANGED frames

NextPair == ConstructPair \/ TrackOwn \/ ResetOwn \/ TrackPeer \/ ResetPeer

SpecPair == Init /\ [][NextPair]_vars

----------------------------------------------------------------------------
(* A tracker fed with images that hold fewer keypoints than the minimum    *)
(* and more than the detector is asked for                                 *)

EdgeImages ==
  { [cols |-> 640, rows |-> 480, n |-> 60,   ox |-> 6, oy |-> 10, sy |-> 16,
     drift |-> 0],
    [cols |-> 640, rows |-> 480, n |-> 200,  ox |-> 4, oy |-> 6,  sy |-> 16,
     drift |-> 0],
    [cols |-> 640, rows |-> 480, n |-> 1100, ox |-> 2, oy |-> 8,  sy |-> 16,
     drift |-> 0] }

ConstructEdge == ConstructOn(EdgeImages, EdgeFrames)

TrackEdge ==
  TrackOn(EdgeFrames) /\ UNCHANGED <<next_id_, peers, pool, ctor>>

NextEdge == ConstructEdge \/ TrackEdge \/ Reset

SpecEdge == Init /\ [][NextEdge]_vars

----------------------------------------------------------------------------
(* A tracker fed with images whose motion has a sub-pixel part *)

\* two views of a scene: 100 and 160 keypoints, the second lattice 2 pixels
\* lower; the flow towards either ends between pixel centres
MaskImages ==
  { [cols |-> 640, rows |-> 480, n |-> 100, ox |-> 4, oy |-> 6, sy |-> 16,
     drift |-> SubPixel - 1],
    [cols |-> 640, rows |-> 480, n |-> 160, ox |-> 4, oy |-> 8, sy |-> 16,
     drift |-> SubPixel - 1] }

ConstructMask == ConstructOn(MaskImages, MaskFrames)

TrackMask ==
  TrackOn(MaskFrames) /\ UNCHANGED <<next_id_, peers, pool, ctor>>

NextMask == ConstructMask \/ TrackMask \/ Reset

SpecMask == Init /\ [][NextMask]_vars

----------------------------------------------------------------------------
(* A tracker that has issued almost as many identities as an int can count *)

WrapImages == SparseImages

\* Frame::next_id_ once 4129775 frames with 520 keypoints, two with 150,
\* one with 200 and one without any were constructed, submitted and
\* released by the caller, each re-detected
WrapBase == 4129779

\* next_track_id_ after these frames, 147 below the largest int, and after
\* one frame with 200 keypoints less
WrapStarts == {INT_MAX - 147, INT_MAX - 347}

\* the tracker after the last of these frames, on which nothing was found;
\* the caller holds none of them any more
InitWrap ==
  /\ prev_frame_ = Ptr(NewFrame(CHOOSE img \in Images : img.n = 0,
                                WrapBase - 1))
  /\ prev_points_ = << >>
  /\ track_ids_ = << >>
  /\ next_track_id_ \in WrapStarts
  /\ next_id_ = WrapBase
  /\ result = [EmptyResult EXCEPT !.tracking_quality = ONE]
  /\ call = NoCall
  /\ issued = {}
  /\ reused = {}
  /\ peers = NoPeers
  /\ frames = << >>
  /\ pool = NewPool(0)
  /\ ctor = NoCtor

\* the call incremented next_track_id_ beyond the largest int
Overflowed(t, out) == out.t.next_track_id_ < t.next_track_id_

\* a call whose increment overflows, in a build that traps on signed
\* overflow: the process is terminated inside the call
TrapOn(cap) ==
  /\ call.calls < cap
  /\ \E i \in 1..Len(frames) :
       \E fk \in FlowChoices(OwnTracker) :
          \E mk \in MaskChoices(
                      Len(GoodIndices(
                            FlowOf(fk, prev_points_, frames[i].frame.image),
                            frames[i].frame.image))) :
             /\ Overflowed(OwnTracker,
                   TrackFeaturesOp(OwnTracker, frames[i].frame,
                      FlowOf(fk, prev_points_, frames[i].frame.image),
                      MaskOf(mk, Len(GoodIndices(
                                       FlowOf(fk, prev_points_,
                                              frames[i].frame.image),
                                       frames[i].frame.image)))))
             /\ call' = [NoCall EXCEPT !.op = "trap", !.pre = OwnTracker,
                                       !.frame = Ptr(frames[i].frame),
                                       !.fk = fk, !.mk = mk,
                                       !.after = call.op,
                                       !.calls = call.calls + 1]
  /\ UNCHANGED <<prev_frame_, prev_points_, track_ids_, next_track_id_,
                 next_id_, frames, result, issued, reused>>

ConstructWrap == call.op # "trap" /\ ConstructOn(WrapImages, WrapFrames)

TrackWrap ==
  /\ call.op # "trap"
  /\ TrackOn(WrapFrames)
  /\ UNCHANGED <<next_id_, peers, pool, ctor>>

TrackTraps ==
  /\ call.op # "trap"
  /\ TrapOn(WrapFrames)
  /\ UNCHANGED <<peers, pool, ctor>>

ResetWrap == call.op # "trap" /\ Reset

NextWrap == ConstructWrap \/ TrackWrap \/ TrackTraps \/ ResetWrap

SpecWrap == InitWrap /\ [][NextWrap]_vars

----------------------------------------------------------------------------
(* A tracker whose external capabilities can throw.  track_features has no *)
(* handler: the exception leaves the call at the capability's call site    *)

\* the detector (extract_features, ORB detect), the optical flow
\* (calcOpticalFlowPyrLK) and the outlier filter (findFundamentalMat)
Capabilities == {"detector", "flow", "filter"}

FailImages == SparseImages

\* one statement of track_features as the call executes it: the capability
\* it calls ("none": it writes members), the branch it belongs to, and the
\* members once it is done
Stmt(cap, site, t) == [cap |-> cap, site |-> site, t |-> t]

\* the members t after the loop that pushes the features of cf and their
\* new identities
Pushed(t, cf) ==
  [t EXCEPT !.prev_points_ = @ \o cf.features,
            !.track_ids_ = @ \o FreshIds(t.next_track_id_, Len(cf.features)),
            !.next_track_id_ = Incremented(@, Len(cf.features))]

\* the members t after prev_points_.clear() and track_ids_.clear()
Cleared(t) == [t EXCEPT !.prev_points_ = << >>, !.track_ids_ = << >>]

\* the statements of the first-frame branch: extract_features, prev_frame_
\* assigned, the table cleared, the loop
BootstrapStmts(t, frame, site) ==
  LET cf == ExtractFeatures(frame, DEFAULT_MAX_FEATURES)
      t1 == [t EXCEPT !.prev_frame_ = Ptr(cf)]
  IN  << Stmt("detector", site, t), Stmt("none", site, t1),
         Stmt("none", site, Cleared(t1)),
         Stmt("none", site, Pushed(Cleared(t1), cf)) >>

\* variant: the table is cleared before the features are re-extracted
RedetectStmtsClearFirst(t, frame) ==
  LET cf == ExtractFeatures(frame, DEFAULT_MAX_FEATURES)
      t2 == Pushed(Cleared(t), cf)
  IN  << Stmt("none", "reinit", Cleared(t)),
         Stmt("detector", "reinit", Cleared(t)),
         Stmt("none", "reinit", t2),
         Stmt("none", "reinit", [t2 EXCEPT !.prev_frame_ = Ptr(cf)]) >>

\* the statements of the re-detection: extract_features, the table cleared,
\* the loop, prev_frame_ assigned
RedetectStmts(t, frame) ==
  LET cf == ExtractFeatures(frame, DEFAULT_MAX_FEATURES)
      t2 == Pushed(Cleared(t), cf)
  IN  << Stmt("detector", "reinit", t),
         Stmt("none", "reinit", Cleared(t)),
         Stmt("none", "reinit", t2),
         Stmt("none", "reinit", [t2 EXCEPT !.prev_frame_ = Ptr(cf)]) >>

\* the three assignments that end the normal tracking branch, the result
\* holding the positions curr and the identities ids
UpdateStmts(t, frame, curr, ids, site) ==
  LET t1 == [t EXCEPT !.prev_frame_ = Ptr(frame)]
      t2 == [t1 EXCEPT !.prev_points_ = curr]
  IN  << Stmt("none", site, t1), Stmt("none", site, t2),
         Stmt("none", site, [t2 EXCEPT !.track_ids_ = ids]) >>

\* the statements of the augmentation: the detector, the loop that takes
\* the new identities from the counter, the assignments
AugmentStmts(t, frame, res, found) ==
  LET take == AugmentTake(Len(res.curr_points), Len(found))
      t1   == [t EXCEPT !.next_track_id_ = Incremented(@, take)]
  IN  << Stmt("detector", "augment", t), Stmt("none", "augment", t1) >>
      \o UpdateStmts(t1, frame, res.curr_points \o SubSeq(found, 1, take),
                     res.track_ids \o FreshIds(t.next_track_id_, take),
                     "augment")

\* the statements of the policy branches over the final set
PolicyStmts(t, frame, final) ==
  IF NeedRedetect(Quality(Len(final.curr), Len(t.prev_points_)),
                  Len(final.curr))
  THEN RedetectStmts(t, frame)
  ELSE IF NeedAugment(Len(final.curr))
  THEN AugmentStmts(t, frame,
                    NormalResult(EmptyResult, final.prev, final.curr,
                                 final.ids),
                    Detect(frame.image, AugmentBudget(Len(final.curr)),
                           final.curr))
  ELSE UpdateStmts(t, frame, final.curr, final.ids, "continue")

\* the statements of the optical-flow branch: the flow, the outlier filter
\* when enough tracks are valid, the policy branch
SteadyStmts(t, frame, good, mask) ==
  << Stmt("flow", "flow", t) >>
  \o (IF RansacApplies(Len(good.curr))
      THEN << Stmt("filter", "filter", t) >> ELSE << >>)
  \o PolicyStmts(t, frame, Filtered(good, mask))

\* the statements of track_features entered at nesting depth with the
\* members t, in the order the call executes them
RECURSIVE StmtsFrom(_, _, _, _, _)
StmtsFrom(t, frame, flow, mask, depth) ==
  IF depth > MaxDepth
  THEN << >>
  ELSE IF t.prev_frame_ = NoFrame
  THEN BootstrapStmts(t, frame,
                      IF depth = 0 THEN "bootstrap" ELSE "rebootstrap")
  ELSE IF t.prev_points_ = << >>
  THEN << Stmt("none", "rebootstrap", ClearFrame(t)) >>
       \o StmtsFrom(ClearFrame(t), frame, flow, mask, depth + 1)
  ELSE SteadyStmts(t, frame, Survivors(t, flow, frame.image), mask)

\* the call does not reach the capability that fails
NotThrown(t) == [thrown |-> FALSE, t |-> t, site |-> "none"]

\* the exception leaves the call with the members t
Thrown(t, site) == [thrown |-> TRUE, t |-> t, site |-> site]

\* the statements stmts are executed from the members t until one calls the
\* capability failing, which throws: the members are as the statements
\* before it have left them
RECURSIVE UntilThrow(_, _, _)
UntilThrow(stmts, t, failing) ==
  IF stmts = << >>
  THEN NotThrown(t)
  ELSE IF Head(stmts).cap = failing
  THEN Thrown(t, Head(stmts).site)
  ELSE UntilThrow(Tail(stmts), Head(stmts).t, failing)

\* track_features called with the members t when the capability failing
\* throws at its first invocation
ThrowFrom(t, frame, flow, mask, failing) ==
  UntilThrow(StmtsFrom(t, frame, flow, mask, 0), t, failing)

\* the exception reaches the caller of the call on the i-th Frame held: no
\* result is returned, and the Frame is as it was submitted
Raise(out, t, i, fk, mk) ==
  /\ out.thrown
  /\ prev_frame_' = out.t.prev_frame_
  /\ prev_points_' = out.t.prev_points_
  /\ track_ids_' = out.t.track_ids_
  /\ next_track_id_' = out.t.next_track_id_
  /\ call' = [NoCall EXCEPT !.op = "throw", !.branch = out.site,
                            !.frame = Ptr(frames[i].frame),
                            !.fk = fk, !.mk = mk,
                            !.epoch = call.epoch \cup Range(call.fresh),
                            !.after = call.op, !.calls = call.calls + 1,
                            !.pre = t]

\* a caller submits a frame and one of the capabilities fails
FailOn(cap) ==
  /\ call.calls < cap
  /\ \E i \in 1..Len(frames), failing \in Capabilities :
       \E fk \in FlowChoices(OwnTracker) :
          \E mk \in MaskChoices(
                      Len(GoodIndices(
                            FlowOf(fk, prev_points_, frames[i].frame.image),
                            frames[i].frame.image))) :
             Raise(ThrowFrom(OwnTracker, frames[i].frame,
                      FlowOf(fk, prev_points_, frames[i].frame.image),
                      MaskOf(mk, Len(GoodIndices(
                                       FlowOf(fk, prev_points_,
                                              frames[i].frame.image),
                                       frames[i].frame.image))),
                      failing),
                   OwnTracker, i, fk, mk)
  /\ UNCHANGED <<next_id_, frames, result, issued, reused>>

ConstructFail == ConstructOn(FailImages, FailFrames)

TrackSound ==
  TrackOn(FailFrames) /\ UNCHANGED <<next_id_, peers, pool, ctor>>

TrackFails ==
  FailOn(FailFrames) /\ UNCHANGED <<peers, pool, ctor>>

NextFail == ConstructFail \/ TrackSound \/ TrackFails \/ Reset

SpecFail == Init /\ [][NextFail]_vars

----------------------------------------------------------------------------
(* Frames constructed and extracted by a caller *)

\* Frame::Frame(image)
ConstructFrame == ConstructOn(Images, FrameCap)

\* frame->extract_features(max_features)
ExtractFrame == ExtractOn(FeatureCounts)

NextFrame == ConstructFrame \/ ExtractFrame

SpecFrame == Init /\ [][NextFrame]_vars

----------------------------------------------------------------------------
(* Frames constructed by several threads.  next_id_ is a plain static      *)
(* uint64_t: next_id_++ is a read followed by a write, and the reads and   *)
(* writes of the threads interleave                                        *)

Threads == 1..NumThreads

\* the images the threads construct their Frames over
ThreadImages == PairImages

\* thread th enters the constructor and reads next_id_
CtorLoad(th) ==
  /\ ctor[th].pc = "idle"
  /\ Len(frames) + Cardinality({o \in Threads : ctor[o].pc = "loaded"})
        < ThreadFrames
  /\ ctor' = [ctor EXCEPT ![th].pc = "loaded", ![th].reg = next_id_]
  /\ UNCHANGED <<next_id_, frames, pool>>
  /\ TrackerIdle

\* thread th writes the incremented value back, initialises id_ with the
\* value it read and leaves the constructor
CtorStore(th) ==
  /\ ctor[th].pc = "loaded"
  /\ next_id_' = NextFrameId(ctor[th].reg)
  /\ \E img \in ThreadImages :
       frames' = Append(frames, Held(NewFrame(img, ctor[th].reg)))
  /\ ctor' = [ctor EXCEPT ![th].pc = "idle", ![th].made = @ + 1]
  /\ UNCHANGED pool
  /\ TrackerIdle

ConstructBegins == \E th \in Threads : CtorLoad(th)

ConstructEnds == \E th \in Threads : CtorStore(th)

NextThreads == ConstructBegins \/ ConstructEnds

SpecThreads == Init /\ [][NextThreads]_vars

----------------------------------------------------------------------------
(* MemoryPool<T> *)

\* the pointers ::operator new can return
Addrs == 1..NumAddrs

\* the max_bytes the pools are constructed with
PoolBudgets == {SIZEOF_T, 2 * SIZEOF_T}

\* the sequence s without its first element equal to x
EraseFirst(s, x) ==
  LET at == CHOOSE i \in 1..Len(s) :
              s[i] = x /\ \A j \in 1..(i - 1) : s[j] # x
  IN  SubSeq(s, 1, at - 1) \o SubSeq(s, at + 1, Len(s))

\* MemoryPool::allocate, ::operator new returning ptr
AllocateOp(pl, ptr) ==
  [pl EXCEPT !.allocated_items_ = Append(@, ptr), !.freed = {}]

\* variant: the pointer is freed whether or not it is in the list
DeallocateOpFreesUnowned(pl, ptr) ==
  [pl EXCEPT !.allocated_items_ = IF ptr \in Range(@)
                                  THEN EraseFirst(@, ptr) ELSE @,
             !.freed = {ptr}]

\* variant: the pointer is freed but stays in the list
DeallocateOpKeepsEntry(pl, ptr) == [pl EXCEPT !.freed = {ptr}]

\* MemoryPool::deallocate(ptr)
DeallocateOp(pl, ptr) ==
  IF ptr \in Range(pl.allocated_items_)
  THEN [pl EXCEPT !.allocated_items_ = EraseFirst(@, ptr), !.freed = {ptr}]
  ELSE [pl EXCEPT !.freed = {}]

\* MemoryPool::~MemoryPool: every pointer left in the list is passed to
\* ::operator delete, and the list goes with the object
DestroyOp(pl) ==
  [pl EXCEPT !.freed = Range(pl.allocated_items_), !.allocated_items_ = << >>]

\* how the pool stands to ptr: it owns it, it owned it and got it back, or
\* it never returned it
KindOf(pl, ptr) ==
  IF ptr \in pl.outstanding THEN "owned"
  ELSE IF ptr \in pl.ever THEN "returned" ELSE "foreign"

\* MemoryPool::get_usage
GetUsage(pl) == Len(pl.allocated_items_) * SIZEOF_T

InitPool ==
  /\ prev_frame_ = NoFrame
  /\ prev_points_ = << >>
  /\ track_ids_ = << >>
  /\ next_track_id_ = 0
  /\ next_id_ = 0
  /\ result = EmptyResult
  /\ call = NoCall
  /\ issued = {}
  /\ reused = {}
  /\ peers = NoPeers
  /\ frames = << >>
  /\ pool \in {NewPool(max_bytes) : max_bytes \in PoolBudgets}
  /\ ctor = NoCtor

\* pool.allocate(); operator new returns memory that is not in use
Allocate ==
  /\ pool.last # "destroy"
  /\ Len(pool.allocated_items_) < MaxAllocs
  /\ \E ptr \in Addrs \ pool.outstanding :
       pool' = [AllocateOp(pool, ptr) EXCEPT
                  !.outstanding = @ \cup {ptr}, !.ever = @ \cup {ptr},
                  !.last = "allocate", !.arg = 0, !.kind = "none",
                  !.before = pool.allocated_items_]
  /\ UNCHANGED <<next_id_, frames, ctor>>
  /\ TrackerIdle

\* pool.deallocate(ptr), for any pointer value
Deallocate ==
  /\ pool.last # "destroy"
  /\ \E ptr \in Addrs :
       pool' = [DeallocateOp(pool, ptr) EXCEPT
                  !.outstanding = @ \ {ptr}, !.last = "deallocate",
                  !.arg = ptr, !.kind = KindOf(pool, ptr),
                  !.before = pool.allocated_items_]
  /\ UNCHANGED <<next_id_, frames, ctor>>
  /\ TrackerIdle

\* the pool goes out of scope
Destroy ==
  /\ pool.last # "destroy"
  /\ pool' = [DestroyOp(pool) EXCEPT
                !.outstanding = @ \ Range(pool.allocated_items_),
                !.last = "destroy", !.arg = 0, !.kind = "none",
                !.before = pool.allocated_items_]
  /\ UNCHANGED <<next_id_, frames, ctor>>
  /\ TrackerIdle

NextPool == Allocate \/ Deallocate \/ Destroy

SpecPool == InitPool /\ [][NextPool]_vars

----------------------------------------------------------------------------
(* Properties *)

\* the last call was a track_features that ...
Tracked == call.op = "track"
Kept == Tracked /\ call.branch \in {"continue", "augment"}
Reinitialised == Tracked /\ call.branch = "reinit"
\* table size at the start of the last call
PrevCount == Len(call.pre.prev_points_)
\* the features the detector finds on the frame submitted in the last call
Detections == MakeSeq(call.frame.image.n, LAMBDA k : Cand(call.frame.image, k))

\* C1: every result has as many current positions and as many identities
\* as its num_tracked says, whichever branch produced it.
C1_ResultLengthsAgree ==
  /\ Len(result.curr_points) = result.num_tracked
  /\ Len(result.track_ids) = result.num_tracked

\* a step that kept survivors and appended augmented features to them
C1_Witness ==
  /\ call.branch = "augment"
  /\ Len(result.prev_points) > 0
  /\ result.num_tracked > Len(result.prev_points)

\* C2: no identity value is issued twice over any sequence of
\* track_features and reset() calls.
C2_NoIdentityIssuedTwice == reused = {}

\* C3: the identities in the Track Table are pairwise distinct, and so are
\* the identities of every returned result.
C3_IdentitiesDistinct ==
  /\ Distinct(track_ids_)
  /\ Distinct(result.track_ids)

\* a table mixing carried-over identities with identities of this step
C3_Witness ==
  /\ call.branch = "augment"
  /\ Len(call.fresh) > 0
  /\ Range(track_ids_) \cap Range(call.pre.track_ids_) # {}
  /\ Len(track_ids_) = TARGET_FEATURES

\* C4: a step that starts with P > 0 entries re-initialises exactly when
\* |final set| / P < 0.5 or |final set| < 100, and otherwise keeps the
\* final set.
C4_PolicyDecision ==
  (Tracked /\ PrevCount > 0) =>
     /\ (call.branch = "reinit")
          <=> (2 * call.nfinal < PrevCount \/ call.nfinal < 100)
     /\ (call.branch # "reinit")
          => (Kept /\ Len(result.prev_points) = call.nfinal)

\* quality exactly 0.5 with exactly 100 final points: tracking is kept
C4_Witness ==
  /\ Kept
  /\ call.nfinal = 100
  /\ PrevCount = 200

\* C5: a step that declares tracking lost returns only freshly allocated
\* identities, the detections on the current image as curr_points, no
\* prev_points and quality 1.0, and the table holds nothing else.
C5_ReinitDiscardsTable ==
  Reinitialised =>
     /\ Range(result.track_ids) \cap Range(call.pre.track_ids_) = {}
     /\ result.curr_points = Detections
     /\ result.prev_points = << >>
     /\ FracEq(result.tracking_quality, ONE)
     /\ prev_points_ = Detections
     /\ track_ids_ = result.track_ids

\* lost because of the ratio alone, with a non-empty previous table and a
\* non-empty re-detection
C5_Witness ==
  /\ Reinitialised
  /\ call.nfinal >= 100
  /\ 2 * call.nfinal < PrevCount
  /\ Len(result.track_ids) > 0
  /\ call.pre.track_ids_ # << >>

\* C6: on a step that keeps tracking the reported quality is
\* |final set| / P, the final set being the carried-over tracks, whether or
\* not the step augmented.
C6_KeptQuality ==
  Kept =>
     LET carried == Cardinality(Range(result.track_ids)
                                  \cap Range(call.pre.track_ids_))
     IN  /\ carried = Len(result.prev_points)
         /\ FracEq(result.tracking_quality, <<carried, PrevCount>>)

\* an augmenting step whose retention ratio is below 1
C6_Witness ==
  /\ call.branch = "augment"
  /\ Len(call.fresh) > 0
  /\ FracLess(result.tracking_quality, ONE)

\* C7 as stated: every step but the very first reports
\* (tracks after filtering) / (tracks before the step).
C7_EveryLaterStepReportsRatio ==
  (Tracked /\ PrevCount > 0) =>
     FracEq(result.tracking_quality, <<call.nfinal, PrevCount>>)

\* C7 amended: a step that keeps tracking reports after / before; a step
\* that bootstraps, re-bootstraps on an empty table or re-initialises
\* reports 1.0.
C7_RatioOrOne ==
  Tracked =>
     IF call.branch \in {"continue", "augment"}
     THEN /\ PrevCount > 0
          /\ result.tracking_quality[1] * PrevCount
               = call.nfinal * result.tracking_quality[2]
     ELSE result.tracking_quality = ONE

\* a re-initialisation that reports 1.0 although half the table survived
C7_Witness ==
  /\ Reinitialised
  /\ 0 < call.nfinal
  /\ 2 * call.nfinal >= PrevCount
  /\ result.tracking_quality = ONE

\* C8: every reported quality lies in [0, 1].
C8_QualityInUnitInterval ==
  /\ result.tracking_quality[2] > 0
  /\ 0 <= result.tracking_quality[1]
  /\ result.tracking_quality[1] <= result.tracking_quality[2]

\* a step without augmentation that lost some tracks
C8_Witness ==
  /\ call.branch = "continue"
  /\ FracLess(ZERO, result.tracking_quality)
  /\ FracLess(result.tracking_quality, ONE)

\* C9: with S >= 8 survivors the filtered subset replaces the survivor set
\* only if it is larger than half of S; otherwise the survivors and their
\* identities are kept and the quality is computed from them.
C9_SanityGuard ==
  (Tracked /\ call.ransac) =>
     LET S      == Len(call.surv_ids)
         R      == call.nmask
         subset == Gather(call.surv_ids, MaskIndices(MaskOf(call.mk, S)))
         final  == IF 2 * R > S THEN subset ELSE call.surv_ids
     IN  /\ S >= 8
         /\ R = Len(subset)
         /\ call.nfinal = Len(final)
         /\ Kept => /\ SubSeq(result.track_ids, 1, Len(final)) = final
                    /\ FracEq(result.tracking_quality, <<Len(final), PrevCount>>)

\* the filter kept exactly half of the survivors and was overruled
C9_Witness ==
  /\ Kept
  /\ call.ransac
  /\ call.nmask > 0
  /\ 2 * call.nmask = Len(call.surv_ids)
  /\ Len(result.prev_points) = Len(call.surv_ids)

\* C10: the first call on a fresh engine returns the n detections of the
\* image with quality 1.0 and the identities 0 .. n-1, and the table holds
\* those positions in detector order.
C10_Bootstrap ==
  (Tracked /\ call.calls = 1) =>
     LET n == call.frame.image.n
     IN  /\ call.branch = "bootstrap"
         /\ result.num_tracked = n
         /\ FracEq(result.tracking_quality, ONE)
         /\ Len(result.track_ids) = n
         /\ \A k \in 1..n : result.track_ids[k] = k - 1
         /\ Distinct(result.track_ids)
         /\ result.curr_points = Detections
         /\ prev_points_ = Detections
         /\ track_ids_ = result.track_ids

\* the first call, on an image with more detections than the target
C10_Witness ==
  /\ Tracked /\ call.calls = 1
  /\ call.branch = "bootstrap"
  /\ result.num_tracked > TARGET_FEATURES

\* the image of the frame submitted in the last call
Image == call.frame.image
\* what the optical flow returned in the last call for the i-th table entry
FlowedTo(i) == FlowPt(call.fk, i, call.pre.prev_points_[i], Image)

\* C11: on a step that keeps tracking the first |final set| entries of the
\* result are the table entries at strictly increasing positions of the
\* previous table, each with the identity and the previous position it had
\* there, and |final set| <= S <= P.
C11_SurvivorsInOrder ==
  Kept =>
     LET n == call.nfinal
     IN  /\ Len(call.idx) = n
         /\ n <= Len(call.surv_ids)
         /\ Len(call.surv_ids) <= PrevCount
         /\ Len(result.prev_points) = n
         /\ Len(result.track_ids) >= n
         /\ \A k \in 1..n :
              /\ call.idx[k] \in 1..PrevCount
              /\ k > 1 => call.idx[k - 1] < call.idx[k]
              /\ result.track_ids[k] = call.pre.track_ids_[call.idx[k]]
              /\ result.prev_points[k] = call.pre.prev_points_[call.idx[k]]

\* the optical flow lost tracks and the outlier filter removed more
C11_Witness ==
  /\ Kept
  /\ call.ransac
  /\ call.nfinal < Len(call.surv_ids)
  /\ Len(call.surv_ids) < PrevCount
  /\ call.idx[call.nfinal] > call.nfinal + 1

\* C12: a step that keeps tracking augments exactly when |final set| < 500;
\* it then asks for at most 500 - |final set| detections, appends what it
\* takes after the survivors with the next identities of the counter, ends
\* with at most 500 entries, and the survivors keep their positions,
\* identities and order.
C12_Augmentation ==
  Kept =>
     LET n == call.nfinal
         m == Len(result.curr_points)
     IN  /\ (call.branch = "augment") <=> (n < 500)
         /\ call.branch = "continue" => (m = n /\ call.fresh = << >>)
         /\ call.branch = "augment" =>
              /\ call.asked <= 500 - n
              /\ n <= m /\ m <= 500
              /\ Len(call.fresh) = m - n
              /\ \A k \in (n + 1)..m :
                   /\ result.track_ids[k]
                        = call.pre.next_track_id_ + (k - n - 1)
                   /\ result.track_ids[k] \notin Range(call.pre.track_ids_)
                   /\ \E j \in 1..Image.n :
                        result.curr_points[k] = Cand(Image, j)
         /\ \A k \in 1..n :
              /\ result.curr_points[k] = FlowedTo(call.idx[k])
              /\ result.track_ids[k] = call.pre.track_ids_[call.idx[k]]

\* an augmentation that took every detection it asked for
C12_Witness ==
  /\ call.branch = "augment"
  /\ call.asked > 0
  /\ Len(call.fresh) = call.asked
  /\ call.nfinal > 0
  /\ Len(result.curr_points) = 500

\* C13: after a track_features call the stored table is the returned
\* result, and the two columns of the table have the same length at every
\* step boundary.
C13_TableIsResult ==
  /\ Len(prev_points_) = Len(track_ids_)
  /\ Tracked => /\ prev_points_ = result.curr_points
                /\ track_ids_ = result.track_ids

\* a re-initialisation that replaced a non-empty table by another
C13_Witness ==
  /\ Reinitialised
  /\ PrevCount > 0
  /\ result.num_tracked > 0
  /\ prev_points_ # call.pre.prev_points_

\* C14: reset() leaves the table empty, the previous-frame slot empty and
\* the counter at zero, and the track_features call that follows it is a
\* bootstrap with quality 1.0 and num_tracked = the number of detections.
C14_ResetThenBootstrap ==
  /\ call.op = "reset" =>
        /\ prev_frame_ = NoFrame
        /\ prev_points_ = << >>
        /\ track_ids_ = << >>
        /\ next_track_id_ = 0
  /\ (Tracked /\ call.after = "reset") =>
        /\ call.branch = "bootstrap"
        /\ result.tracking_quality = ONE
        /\ result.num_tracked = Image.n
        /\ Len(result.curr_points) = Image.n

\* a bootstrap in the third call: the tracker was reset after two steps
C14_Witness ==
  /\ Tracked
  /\ call.after = "reset"
  /\ call.calls = 3
  /\ result.num_tracked > 0
  /\ reused # {}

\* C16: a call made with a previous frame and an empty table returns what
\* a bootstrap on the submitted image returns, with the identities taken
\* from the current counter value on, never a zero-quality result.
C16_EmptyTableRebootstrap ==
  (Tracked /\ call.pre.prev_frame_ # NoFrame /\ PrevCount = 0) =>
     /\ call.branch = "rebootstrap"
     /\ result.num_tracked = Image.n
     /\ result.tracking_quality = ONE
     /\ result.curr_points = Detections
     /\ Len(result.track_ids) = Image.n
     /\ \A k \in 1..Image.n :
          result.track_ids[k] = call.pre.next_track_id_ + k - 1
     /\ next_track_id_ = call.pre.next_track_id_ + Image.n
     /\ prev_frame_.id = call.frame.id

\* a re-bootstrap whose first identity is not 0
C16_Witness ==
  /\ Tracked
  /\ call.branch = "rebootstrap"
  /\ result.num_tracked > 0
  /\ result.track_ids[1] > 0

\* C17: a bootstrap or re-initialisation without detections returns an
\* empty result and leaves an empty table, and a call made on an empty
\* table is a bootstrap attempt that returns the n detections of its image.
C17_RecoversFromEmptyTable ==
  /\ ( /\ Tracked
        /\ call.branch \in {"bootstrap", "rebootstrap", "reinit"}
        /\ Image.n = 0 ) =>
        /\ result.num_tracked = 0
        /\ result.curr_points = << >>
        /\ result.track_ids = << >>
        /\ prev_points_ = << >>
        /\ track_ids_ = << >>
  /\ (Tracked /\ PrevCount = 0) =>
        /\ call.branch \in {"bootstrap", "rebootstrap"}
        /\ result.num_tracked = Image.n
        /\ Len(prev_points_) = Image.n

\* a table emptied by a re-initialisation is refilled by the next call
C17_Witness ==
  /\ Tracked
  /\ call.branch = "rebootstrap"
  /\ call.pre.next_track_id_ > 0
  /\ call.epoch # {}
  /\ Len(prev_points_) > 0

\* C18: every track_features call returns, and it re-enters itself at most
\* once, which it does exactly when it finds a previous frame and an empty
\* table.
C18_ReentersAtMostOnce ==
  Tracked =>
     /\ call.branch # "diverged"
     /\ call.depth <= 1
     /\ (call.depth = 1)
          <=> (call.pre.prev_frame_ # NoFrame /\ PrevCount = 0)

\* the re-entered bootstrap finds no detection either
C18_Witness ==
  /\ Tracked
  /\ call.depth = 1
  /\ result.num_tracked = 0
  /\ prev_points_ = << >>
  /\ prev_frame_ # NoFrame

\* C19 as stated: a track_features call never decreases the counter and
\* advances it by exactly the number of identities it issues, which are the
\* next values of the counter and none of those issued since the last
\* reset; only bootstrap, re-initialisation and augmentation issue
\* identities, and every identity of the table is below the counter.  It
\* holds as long as the counter stays below INT_MAX and fails when the
\* increment overflows.
C19_CounterMonotone ==
  /\ \A id \in Range(track_ids_) : id < next_track_id_
  /\ Tracked =>
        /\ next_track_id_ >= call.pre.next_track_id_
        /\ next_track_id_ = call.pre.next_track_id_ + Len(call.fresh)
        /\ \A k \in 1..Len(call.fresh) :
             call.fresh[k] = call.pre.next_track_id_ + k - 1
        /\ Range(call.fresh) \cap call.epoch = {}
        /\ call.fresh # << >> =>
             call.branch \in {"bootstrap", "rebootstrap", "reinit", "augment"}
        /\ Range(track_ids_)
             \subseteq Range(call.pre.track_ids_) \cup Range(call.fresh)

\* C15: a reset of a tracker that was just reset changes nothing, and a
\* tracker that was reset returns, call by call, what a tracker constructed
\* at the time of the reset returns on the same frames, and holds the same
\* table and counter; its first identities after the reset are 0, 1, ...
C15_ResetIsConstruction ==
  /\ call.op = "reset" => ResetOp(OwnTracker) = OwnTracker
  /\ (peers.resets /\ Tracked) =>
        /\ result = peers.fresh.result
        /\ OwnTracker = peers.fresh.t
  /\ (peers.resets /\ Tracked /\ peers.since = 1) =>
        \A k \in 1..Len(result.track_ids) : result.track_ids[k] = k - 1

\* the second step after a reset that followed a non-empty bootstrap
C15_Witness ==
  /\ peers.resets
  /\ peers.since = 2
  /\ Kept
  /\ call.nfinal < PrevCount
  /\ reused # {}

\* C20: whatever is called on the second instance, the first instance
\* holds the previous frame, the table and the counter, and has returned
\* the result, that it holds and returns in a process without the second
\* instance, where the Frames are touched by the first instance only.
C20_InstancesIndependent ==
  /\ prev_frame_ = peers.alone.t.prev_frame_
  /\ prev_points_ = peers.alone.t.prev_points_
  /\ track_ids_ = peers.alone.t.track_ids_
  /\ next_track_id_ = peers.alone.t.next_track_id_
  /\ result = peers.alone.result

\* the second instance has issued identities on a Frame and left its
\* features in it, the first instance has extracted the features of that
\* Frame too, and it re-initialises in its second call and issues
\* identities of its own
C20_Witness ==
  /\ Reinitialised
  /\ call.calls = 2
  /\ call.fresh # << >>
  /\ peers.other.frames > 0
  /\ peers.other.t.next_track_id_ > 0
  /\ peers.other.t.prev_frame_ # NoFrame
  /\ \E i \in 1..Len(frames) :
        /\ peers.apart[i].times > 0
        /\ frames[i].times > peers.apart[i].times

\* the last call ran the optical flow
Steadied == Tracked /\ call.branch \in {"reinit", "continue", "augment"}

\* C21 as stated: the call that follows a bootstrap returns num_tracked > 0
\* and a quality above 0.5 when its image has at least one detection.
C21_QualityAboveHalf ==
  (Tracked /\ call.pre.prev_frame_ # NoFrame /\ Image.n > 0) =>
     /\ result.num_tracked > 0
     /\ FracLess(MIN_QUALITY, result.tracking_quality)

\* C21 amended: the call that follows a bootstrap returns num_tracked > 0
\* and a quality of at least 0.5 when its image has at least one detection.
C21_QualityAtLeastHalf ==
  (Tracked /\ call.pre.prev_frame_ # NoFrame /\ Image.n > 0) =>
     /\ result.num_tracked > 0
     /\ ~FracLess(result.tracking_quality, MIN_QUALITY)

\* the call after the bootstrap keeps exactly half of the table
C21_Witness ==
  /\ Kept
  /\ call.pre.prev_frame_.id = 0
  /\ Image.n > 0
  /\ FracEq(result.tracking_quality, MIN_QUALITY)

\* C24: in a step that runs the optical flow the survivors are exactly the
\* table entries whose flow status is set, whose error is below 30 and
\* whose new position is inside the image, 0 <= x < cols and 0 <= y < rows.
C24_SurvivorSet ==
  Steadied =>
     \A i \in 1..PrevCount :
        (call.pre.track_ids_[i] \in Range(call.surv_ids))
          <=> /\ FlowStatus(call.fk, i) # 0
              /\ FlowErr(call.fk, i) < 30
              /\ FlowedTo(i)[1] >= 0 /\ FlowedTo(i)[1] < SubPixel * Image.cols
              /\ FlowedTo(i)[2] >= 0 /\ FlowedTo(i)[2] < SubPixel * Image.rows

\* a flow with lost entries, entries at the error ceiling and entries that
\* left the image on either side
C24_Witness ==
  /\ Steadied
  /\ call.fk = "half"
  /\ PrevCount >= 12
  /\ Len(call.surv_ids) > 0
  /\ \E i \in 1..PrevCount : FlowedTo(i)[1] = SubPixel * Image.cols
  /\ \E i \in 1..PrevCount : FlowErr(call.fk, i) = 30 /\ FlowStatus(call.fk, i) # 0

\* C25: the outlier filter runs only on 8 or more survivors; fewer
\* survivors reach the policy decision as they are.
C25_FilterNeedsEight ==
  Steadied =>
     /\ call.ransac => Len(call.surv_ids) >= 8
     /\ call.mk # "-" => Len(call.surv_ids) >= 8
     /\ Len(call.surv_ids) < 8 =>
          /\ ~call.ransac
          /\ call.nfinal = Len(call.surv_ids)

\* seven survivors: one short of the filter's minimum
C25_Witness ==
  /\ Steadied
  /\ Len(call.surv_ids) = 7
  /\ call.nfinal = 7

\* C27: after a track_features call the previous-frame slot holds the
\* frame submitted in that call.
C27_SlotHoldsSubmittedFrame ==
  Tracked =>
     /\ prev_frame_ # NoFrame
     /\ prev_frame_.id = call.frame.id
     /\ prev_frame_.image = call.frame.image

\* a re-initialisation replaced the frame of the step before
C27_Witness ==
  /\ Reinitialised
  /\ call.pre.prev_frame_ # NoFrame
  /\ call.pre.prev_frame_.id # prev_frame_.id

\* C30: a result has at most as many previous as current positions; entry
\* i of both and of the identities describe one track of the table before
\* the step; prev_points is empty exactly on bootstrap and
\* re-initialisation.
C30_PairsDescribeOneTrack ==
  Tracked =>
     /\ Len(result.prev_points) <= Len(result.curr_points)
     /\ (result.prev_points = << >>) <=> ~Kept
     /\ Len(result.prev_points) <= Len(call.idx)
     /\ \A k \in 1..Len(result.prev_points) :
          /\ result.track_ids[k] = call.pre.track_ids_[call.idx[k]]
          /\ result.prev_points[k] = call.pre.prev_points_[call.idx[k]]
          /\ result.curr_points[k] = FlowedTo(call.idx[k])

\* a kept step that lost tracks and appended new ones
C30_Witness ==
  /\ Kept
  /\ Len(result.prev_points) < Len(result.curr_points)
  /\ Len(result.prev_points) < PrevCount

\* C22: after extract_features(N) the Feature vector has one entry per
\* keypoint of that call and at most N entries, and a further call with
\* the same N leaves the frame as it is.
C22_ExtractReplaces ==
  \A i \in 1..Len(frames) :
     frames[i].times > 0 =>
        LET f == frames[i].frame
        IN  /\ Len(f.features) = Len(f.keypoints_)
            /\ Len(f.features) <= frames[i].asked
            /\ f.features = f.keypoints_
            /\ f.keypoints_ = Detect(f.image, frames[i].asked, << >>)
            /\ ExtractFeatures(f, frames[i].asked) = f

\* a second call that asked for fewer features than the frame held
C22_Witness ==
  \E i \in 1..Len(frames) :
     /\ frames[i].times = 2
     /\ Len(frames[i].frame.features) > 0
     /\ frames[i].before > Len(frames[i].frame.features)

\* C23: the bytes a pool has handed out never exceed the max_bytes it was
\* constructed with.
C23_UsageWithinBudget == GetUsage(pool) <= pool.max_size_

\* C28: Frames constructed one after the other have pairwise different
\* ids, increasing in construction order.
C28_FrameIdsIncrease ==
  \A i, j \in 1..Len(frames) :
     i < j => frames[i].frame.id < frames[j].frame.id

\* as many frames as the caller constructs
C28_Witness ==
  /\ Len(frames) >= 2
  /\ next_id_ = Len(frames)

\* C29: get_usage() is sizeof(T) times the number of pointers allocated
\* and not deallocated since, and 0 once all of them were deallocated.
C29_UsageCountsOutstanding ==
  /\ GetUsage(pool) = SIZEOF_T * Cardinality(pool.outstanding)
  /\ pool.outstanding = {} => GetUsage(pool) = 0

\* a deallocation in the middle of the list leaves two pointers out
C29_Witness ==
  /\ pool.last = "deallocate"
  /\ Cardinality(pool.outstanding) = 2
  /\ Len(pool.allocated_items_) = 2
  /\ pool.allocated_items_[1] > pool.allocated_items_[2]

\* the squared distance of two positions, in 1/SubPixel of a pixel
Dist2(p, q) ==
  (p[1] - q[1]) * (p[1] - q[1]) + (p[2] - q[2]) * (p[2] - q[2])

\* C26: no position the augmentation appends lies within 20 pixels of a
\* position of the final survivor set of the step.
C26_AppendedKeepDistance ==
  (Tracked /\ call.branch = "augment") =>
     \A k \in (call.nfinal + 1)..Len(result.curr_points) :
        \A j \in 1..call.nfinal :
           Dist2(result.curr_points[k], result.curr_points[j])
              > (MASK_RADIUS * SubPixel) * (MASK_RADIUS * SubPixel)

\* C31: every result of track_features has one inlier flag per reported
\* track and counts all of them as inliers:
\* len(inliers) = num_inliers = num_tracked.
C31_InlierFlagsCoverTracks ==
  Tracked =>
     /\ Len(result.inliers) = result.num_inliers
     /\ result.num_inliers = result.num_tracked

\* C32: a step that starts from a table of 1 to 99 entries re-initialises
\* whatever the optical flow and the outlier filter return, and none of the
\* identities it started with is in the table afterwards; after a step that
\* keeps tracking the table has at least 100 entries.
C32_SmallTableReinitialises ==
  /\ (Tracked /\ PrevCount > 0 /\ PrevCount < 100) =>
        /\ call.branch = "reinit"
        /\ Range(track_ids_) \cap Range(call.pre.track_ids_) = {}
  /\ Kept =>
        /\ Len(prev_points_) >= 100
        /\ Len(track_ids_) >= 100
        /\ PrevCount >= 100

\* every one of 60 tracks was followed and accepted by the outlier filter
C32_Witness ==
  /\ Tracked
  /\ PrevCount = 60
  /\ call.fk = "all" /\ call.mk = "all"
  /\ call.nfinal = 60
  /\ call.branch = "reinit"

\* C34: the table never has more than 1000 entries, and after a step that
\* keeps tracking from P entries it has at most max(P, 500).
C34_TableBounded ==
  /\ Len(prev_points_) <= 1000
  /\ Len(track_ids_) <= 1000
  /\ Kept => \/ Len(prev_points_) <= PrevCount
             \/ Len(prev_points_) <= 500

\* a table of 200 filled up to the target from an image that has more
\* than 1000 keypoints
C34_Witness ==
  /\ Kept
  /\ call.branch = "augment"
  /\ PrevCount = 200
  /\ Image.n > 1000
  /\ Len(prev_points_) = 500

\* C33: in every state the identities of the table increase strictly with
\* the index and each is smaller than the identity counter.
C33_TableIdsBelowCounter ==
  \A i \in 1..Len(track_ids_) :
     /\ track_ids_[i] < next_track_id_
     /\ i > 1 => track_ids_[i - 1] < track_ids_[i]

\* C36: the identity counter never wraps around: without a reset every
\* identity a call issues is non-negative and greater than every identity
\* issued before it.
C36_CounterNeverWraps ==
  Tracked =>
     /\ next_track_id_ >= call.pre.next_track_id_
     /\ \A k \in 1..Len(call.fresh) :
          /\ call.fresh[k] >= 0
          /\ call.fresh[k] >= call.pre.next_track_id_
          /\ k > 1 => call.fresh[k - 1] < call.fresh[k]
          /\ \A old \in call.epoch : old < call.fresh[k]

\* C38: deallocate with a pointer the pool does not own, whether it never
\* returned it or got it back already, leaves the list and get_usage() as
\* they were and passes nothing to operator delete.
C38_ForeignDeallocateIsNoOp ==
  (pool.last = "deallocate" /\ pool.kind # "owned") =>
     /\ pool.allocated_items_ = pool.before
     /\ GetUsage(pool) = SIZEOF_T * Len(pool.before)
     /\ pool.freed = {}

\* a second deallocate of a pointer while the pool holds others
C38_Witness ==
  /\ pool.last = "deallocate"
  /\ pool.kind = "returned"
  /\ pool.arg \notin pool.outstanding
  /\ pool.outstanding # {}

\* C37: Frames constructed by several threads at once have pairwise
\* different ids, and no increment of next_id_ is lost: once every thread
\* has left the constructor the counter equals the number of Frames.
C37_ConcurrentIdsUnique ==
  /\ \A i, j \in 1..Len(frames) :
        i # j => frames[i].frame.id # frames[j].frame.id
  /\ (\A th \in Threads : ctor[th].pc = "idle") => next_id_ = Len(frames)

\* C35: when a capability throws during track_features the exception
\* reaches the caller and the table, positions and identities, and the
\* identity counter are as they were before the call.
C35_FailureLeavesTable ==
  call.op = "throw" =>
     /\ prev_points_ = call.pre.prev_points_
     /\ track_ids_ = call.pre.track_ids_
     /\ next_track_id_ = call.pre.next_track_id_

\* the detector fails in the re-detection of a step that lost its tracks
C35_Witness ==
  /\ call.op = "throw"
  /\ call.branch = "reinit"
  /\ PrevCount > 0
  /\ prev_points_ # << >>

====
